---- MODULE Spec2Model ----
(***************************************************************************)
(* Model of fsub_extractor/utils/utils.py: the executable locator, the     *)
(* command runner and the five pipeline components built on them.          *)
(*                                                                         *)
(* Python strings are TLA+ strings; the str methods the code uses (split,  *)
(* strip, removesuffix, replace, slicing, posixpath.join) are computed     *)
(* character by character.  A Python value whose type matters to the code  *)
(* (an element of a command list, the argument of run_command) is a record *)
(* [t |-> type, v |-> value].  An exception is a record                    *)
(* [k |-> "raise", exc |-> class, msg |-> message].                        *)
(***************************************************************************)
EXTENDS Integers, Sequences, FiniteSets, TLC

VARIABLES environ,      \* os.environ restricted to PATH: a function on {} or {"PATH"}
          executables,  \* paths for which op.exists(p) and os.access(p, os.X_OK)
          directories,  \* paths for which op.isdir(p)
          call,         \* the function the caller is executing, with its arguments
          pc,           \* position inside that function
          locals,       \* local names bound so far in that function
          log,          \* external processes spawned so far: [argv, rc]
          tested,       \* paths handed to is_exe so far
          outcome,      \* how the call ended: running, return or raise
          calls         \* calls the caller has completed

vars == <<environ, executables, directories, call, pc, locals, log, tested, outcome, calls>>

----------------------------------------------------------------------------
(* Bounds of the exploration *)

MaxCalls == 2     \* calls the caller makes one after the other
MaxExit == 2      \* exit codes of external tools range over -MaxSignal..MaxExit
MaxSignal == 1    \* a negative returncode is death by a signal

ExitCodes == (0 - MaxSignal)..MaxExit

----------------------------------------------------------------------------
(* Python str operations *)

Max(a, b) == IF a > b THEN a ELSE b

\* s[i:j] with 1-based inclusive bounds, "" when empty
Slice(s, i, j) == IF i > j THEN "" ELSE SubSeq(s, i, j)

\* s[-n:]
Suffix(s, n) == Slice(s, Max(1, Len(s) - n + 1), Len(s))

startswith(s, p) == Len(p) <= Len(s) /\ Slice(s, 1, Len(p)) = p
endswith(s, p) == Len(p) = 0 \/ (Len(p) <= Len(s) /\ Suffix(s, Len(p)) = p)

\* str.removesuffix
removesuffix(s, suf) ==
    IF Len(suf) > 0 /\ endswith(s, suf) THEN Slice(s, 1, Len(s) - Len(suf)) ELSE s

\* str.split(sep), sep non-empty: always at least one field
RECURSIVE SplitFrom(_, _, _, _)
SplitFrom(s, sep, i, start) ==
    IF i > Len(s) - Len(sep) + 1
    THEN << Slice(s, start, Len(s)) >>
    ELSE IF Slice(s, i, i + Len(sep) - 1) = sep
         THEN << Slice(s, start, i - 1) >> \o SplitFrom(s, sep, i + Len(sep), i + Len(sep))
         ELSE SplitFrom(s, sep, i + 1, start)

split(s, sep) == SplitFrom(s, sep, 1, 1)

\* str.strip(ch) for a one-character ch
RECURSIVE lstrip(_, _)
lstrip(s, ch) == IF Len(s) > 0 /\ Slice(s, 1, 1) = ch THEN lstrip(Slice(s, 2, Len(s)), ch) ELSE s
RECURSIVE rstrip(_, _)
rstrip(s, ch) ==
    IF Len(s) > 0 /\ Slice(s, Len(s), Len(s)) = ch THEN rstrip(Slice(s, 1, Len(s) - 1), ch) ELSE s
strip(s, ch) == rstrip(lstrip(s, ch), ch)

\* str.replace(old, new): every non-overlapping occurrence, left to right
RECURSIVE ReplaceFrom(_, _, _, _)
ReplaceFrom(s, old, new, i) ==
    IF i > Len(s)
    THEN IF old = "" THEN new ELSE ""
    ELSE IF old = ""
         THEN new \o Slice(s, i, i) \o ReplaceFrom(s, old, new, i + 1)
         ELSE IF i + Len(old) - 1 <= Len(s) /\ Slice(s, i, i + Len(old) - 1) = old
              THEN new \o ReplaceFrom(s, old, new, i + Len(old))
              ELSE Slice(s, i, i) \o ReplaceFrom(s, old, new, i + 1)

replace(s, old, new) == ReplaceFrom(s, old, new, 1)

\* posixpath.join(a, b)
join(a, b) ==
    IF startswith(b, "/") THEN b
    ELSE IF a = "" \/ endswith(a, "/") THEN a \o b
    ELSE a \o "/" \o b

Last(seq) == seq[Len(seq)]

----------------------------------------------------------------------------
(* Python values and results *)

PyStr(s) == [t |-> "str", v |-> s]
PyFloat(s) == [t |-> "float", v |-> s]     \* v is the textual form of the number
PyList(l) == [t |-> "list", v |-> l]

Return(v) == [k |-> "return", v |-> v]
Raise(exc, msg) == [k |-> "raise", exc |-> exc, msg |-> msg]
Running == [k |-> "running"]
None == "None"

NameError(name) == Raise("NameError", "name '" \o name \o "' is not defined")

\* names defined at module level of utils.py
Globals == {"op", "os", "shutil", "subprocess", "find_program", "run_command",
            "merge_rois", "anat_to_gmwmi", "extract_tck_mrtrix", "dilate_roi",
            "intersect_gmwmi"}

----------------------------------------------------------------------------
(* find_program *)

pathsep == ":"

is_exe(fpath) == fpath \in executables

\* names bound inside find_program when line 34 is reached
find_program_locals == {"program", "is_exe", "path_split", "path", "exe_file"}

\* the for loop of lines 28-34: both branches of the body leave the function,
\* so only the first element of path_split is ever visited
find_program_loop(path_split, program) ==
    IF Len(path_split) = 0
    THEN [tested |-> << >>, res |-> Return(None)]
    ELSE LET path == strip(path_split[1], "\"")
             exe_file == join(path, program)
         IN IF is_exe(exe_file)
            THEN [tested |-> << exe_file >>, res |-> Return(program)]
            ELSE [tested |-> << exe_file >>,
                  res |-> IF "function_name" \in find_program_locals \cup Globals
                          THEN Raise("SystemExit", "Command  could not be found in PATH.")
                          ELSE NameError("function_name")]

find_program(program) ==
    IF "PATH" \notin DOMAIN environ
    THEN [tested |-> << >>, res |-> Raise("KeyError", "'PATH'")]
    ELSE LET path_split == split(environ["PATH"], pathsep)
         IN IF Len(path_split) = 0
            THEN [tested |-> << >>,
                  res |-> Raise("SystemExit", "PATH environment variable is empty.")]
            ELSE find_program_loop(path_split, program)

----------------------------------------------------------------------------
(* run_command *)

\* what the operating system makes of a spawned process: it cannot be
\* started, or it runs and exits with a return code
ProcOutcomes == {[k |-> "oserror", rc |-> 0]} \cup {[k |-> "exit", rc |-> n] : n \in ExitCodes}

\* cmd_list[0] on a list or on a str
Index0(cmd_list) ==
    IF cmd_list.t = "list" THEN cmd_list.v[1] ELSE PyStr(Slice(cmd_list.v, 1, 1))

\* subprocess.run(args) with shell=False: a str is the program alone; every
\* element of a list must be a str, or no process is started.  The result
\* is the processes spawned and the returncode, or the exception.
subprocess_run(args, proc) ==
    IF args.t = "list" /\ \E i \in 1..Len(args.v) : args.v[i].t # "str"
    THEN [log |-> << >>,
          res |-> Raise("TypeError", "expected str, bytes or os.PathLike object, not float")]
    ELSE LET argv == IF args.t = "list"
                     THEN [i \in 1..Len(args.v) |-> args.v[i].v]
                     ELSE << args.v >>
         IN IF proc.k = "oserror"
            THEN [log |-> << >>, res |-> Raise("OSError", argv[1])]
            ELSE [log |-> << [argv |-> argv, rc |-> proc.rc] >>, res |-> Return(proc.rc)]

\* run_command without the check of line 52
run_command_no_check(cmd_list, proc) ==
    LET run == subprocess_run(cmd_list, proc)
    IN IF run.res.k = "raise" THEN run ELSE [log |-> run.log, res |-> Return(None)]

\* run_command with line 52 reading return_code > 0
run_command_positive_only(cmd_list, proc) ==
    LET function_name == Index0(cmd_list)
        run == subprocess_run(cmd_list, proc)
    IN IF run.res.k = "raise"
       THEN run
       ELSE IF run.res.v > 0
            THEN [log |-> run.log,
                  res |-> Raise("SystemExit",
                                "Command " \o function_name.v \o
                                " exited with errors. See message above for more information.")]
            ELSE [log |-> run.log, res |-> Return(None)]

run_command(cmd_list, proc) ==
    LET function_name == Index0(cmd_list)
        run == subprocess_run(cmd_list, proc)
    IN IF run.res.k = "raise"
       THEN run
       ELSE IF run.res.v # 0
            THEN [log |-> run.log,
                  res |-> Raise("SystemExit",
                                "Command " \o function_name.v \o
                                " exited with errors. See message above for more information.")]
            ELSE [log |-> run.log, res |-> Return(None)]

----------------------------------------------------------------------------
(* The caller: environment, inputs, call and return *)

Tools == {"mrcalc", "5ttgen", "5tt2gmwmi", "tck2connectome", "connectome2tck",
          "mri_vol2surf", "mri_surf2vol"}

\* directories a tool may be installed in; "" is the working directory
InstallDirs == {"/a", "/b", ""}
\* a complete installation, and one that lacks the second tool of each pipeline
ToolSets == {Tools, Tools \ {"5tt2gmwmi", "connectome2tck", "mri_surf2vol"}}
PathValues == {"", "/a", "/a:/b", "/b:/a", "\"/a\":/b"}
SurfDirs == {"/fs/sub1/surf", "/d/x.nii/surf"}

NoLocals == [n \in {} |-> ""]
Idle == [op |-> "idle", args |-> NoLocals]

Init ==
    /\ environ \in {NoLocals} \cup {("PATH" :> p) : p \in PathValues}
    /\ \E inst \in SUBSET InstallDirs, ts \in ToolSets :
           executables = {join(d, t) : d \in inst, t \in ts}
    /\ directories \in SUBSET SurfDirs
    /\ call = Idle
    /\ pc = "idle"
    /\ locals = NoLocals
    /\ log = << >>
    /\ tested = << >>
    /\ outcome = Running
    /\ calls = 0

Env == <<environ, executables, directories>>

\* the caller may start a call
Ready == pc = "idle" /\ calls < MaxCalls

\* the caller enters function op: its parameters are its first locals
Enter(op, args, first) ==
    /\ call' = [op |-> op, args |-> args]
    /\ locals' = args
    /\ pc' = first
    /\ UNCHANGED <<Env, log, tested, outcome, calls>>

\* the function ends with a return value or an exception
Finish(res) == pc' = "done" /\ outcome' = res /\ calls' = calls

\* name = find_program(program), then go on at next
Find(name, program, binds, next) ==
    LET r == find_program(program)
    IN /\ tested' = tested \o r.tested
       /\ IF r.res.k = "return"
          THEN /\ locals' = (name :> r.res.v) @@ binds @@ locals
               /\ pc' = next
               /\ UNCHANGED <<outcome, calls>>
          ELSE /\ locals' = binds @@ locals
               /\ Finish(r.res)
       /\ UNCHANGED <<Env, call, log>>

\* run_command(cmd_list), then go on at next; next = "done" returns None
Run(cmd_list, binds, next) ==
    \E proc \in ProcOutcomes :
        LET r == run_command(cmd_list, proc)
        IN /\ log' = log \o r.log
           /\ locals' = binds @@ locals
           /\ IF r.res.k = "return" /\ next # "done"
              THEN pc' = next /\ UNCHANGED <<outcome, calls>>
              ELSE Finish(r.res)
           /\ UNCHANGED <<Env, call, tested>>

\* the caller takes the result and is ready for the next call
Reset ==
    /\ pc = "done"
    /\ call' = Idle
    /\ pc' = "idle"
    /\ locals' = NoLocals
    /\ log' = << >>
    /\ tested' = << >>
    /\ outcome' = Running
    /\ calls' = calls + 1
    /\ UNCHANGED Env

----------------------------------------------------------------------------
(* Direct calls of the two leaf functions *)

ProgramInputs == {"mrcalc", "5tt2gmwmi", "nosuchtool"}

find_program_call ==
    \E program \in ProgramInputs :
        /\ Ready
        /\ call' = [op |-> "find_program", args |-> [program |-> program]]
        /\ locals' = [program |-> program]
        /\ LET r == find_program(program)
           IN tested' = r.tested /\ Finish(r.res)
        /\ UNCHANGED <<Env, log>>

CmdListInputs == {PyList(<< PyStr("mrcalc"), PyStr("a.nii"), PyStr("b.nii") >>),
                  PyList(<< PyStr("tck2connectome"), PyFloat("2.0") >>),
                  PyList(<< PyStr("ls") >>)}

run_command_call ==
    \E cmd_list \in CmdListInputs, proc \in ProcOutcomes :
        /\ Ready
        /\ call' = [op |-> "run_command", args |-> [cmd_list |-> cmd_list]]
        /\ locals' = [cmd_list |-> cmd_list]
        /\ LET r == run_command(cmd_list, proc)
           IN log' = r.log /\ Finish(r.res)
        /\ UNCHANGED <<Env, tested>>

----------------------------------------------------------------------------
(* merge_rois *)

Bound(name) == name \in DOMAIN locals \cup Globals

merge_rois_call ==
    \E roi1 \in {"R1.nii.gz"}, roi2 \in {"R2.nii.gz", "R2.nii"}, outpath_base \in {"out_"} :
        /\ Ready
        /\ Enter("merge_rois",
                 [roi1 |-> roi1, roi2 |-> roi2, outpath_base |-> outpath_base],
                 "merge_rois:76")

\* lines 76-77
merge_rois_76 ==
    /\ pc = "merge_rois:76"
    /\ Find("mrcalc", "mrcalc",
            "labelled_roi2" :> (removesuffix(locals.roi2, ".nii.gz") \o "_labelled.nii.gz"),
            "merge_rois:80")

\* lines 80-81
merge_rois_80 ==
    /\ pc = "merge_rois:80"
    /\ LET cmd_mrcalc_mult == << PyStr(locals.mrcalc), PyStr(locals.roi2), PyStr("2"),
                                 PyStr("-mult"), PyStr(locals.labelled_roi2) >>
       IN Run(PyList(cmd_mrcalc_mult), "cmd_mrcalc_mult" :> cmd_mrcalc_mult, "merge_rois:84")

\* lines 84-87: out_file is read before anything binds it
merge_rois_84 ==
    /\ pc = "merge_rois:84"
    /\ IF Bound("out_file")
       THEN LET cmd_mrcalc_merge == << PyStr(locals.mrcalc), PyStr(locals.roi1),
                                       PyStr(locals.labelled_roi2), PyStr("-add"),
                                       PyStr(locals.out_file) >>
            IN Run(PyList(cmd_mrcalc_merge), "cmd_mrcalc_merge" :> cmd_mrcalc_merge, "done")
       ELSE /\ Finish(NameError("out_file"))
            /\ UNCHANGED <<Env, call, locals, log, tested>>

----------------------------------------------------------------------------
(* anat_to_gmwmi *)

isdir(path) == path \in directories

\* lines 111-118 with the extension tested before the surf directory
fivett_algo_extension_first(anat) ==
    IF Suffix(anat, 7) = ".nii.gz" \/ Suffix(anat, 4) = ".nii" \/ Suffix(anat, 4) = ".mif"
    THEN Return("fsl")
    ELSE IF isdir(join(anat, "surf"))
         THEN Return("hsvs")
         ELSE Raise("Exception",
                    "Neither T1 or FreeSurfer input detected; Unable to create GMWMI")

\* lines 111-118: the 5ttgen algorithm for an anatomical input, or the rejection
fivett_algo(anat) ==
    IF isdir(join(anat, "surf"))
    THEN Return("hsvs")
    ELSE IF Suffix(anat, 7) = ".nii.gz" \/ Suffix(anat, 4) = ".nii" \/ Suffix(anat, 4) = ".mif"
         THEN Return("fsl")
         ELSE Raise("Exception",
                    "Neither T1 or FreeSurfer input detected; Unable to create GMWMI")

AnatInputs == {"/d/T1.nii.gz", "/d/T1.nii", "/d/T1.mif", "/fs/sub1", "/d/x.nii",
               "/d/T1.txt", "nii"}

anat_to_gmwmi_call ==
    \E anat \in AnatInputs, outpath_base \in {"out_"} :
        /\ Ready
        /\ Enter("anat_to_gmwmi", [anat |-> anat, outpath_base |-> outpath_base],
                 "anat_to_gmwmi:111")

\* lines 111-122
anat_to_gmwmi_111 ==
    /\ pc = "anat_to_gmwmi:111"
    /\ LET r == fivett_algo(locals.anat)
       IN IF r.k = "raise"
          THEN Finish(r) /\ UNCHANGED <<Env, call, locals, log, tested>>
          ELSE Find("fivettgen", "5ttgen", "fivett_algo" :> r.v, "anat_to_gmwmi:123")

\* lines 123-124
anat_to_gmwmi_123 ==
    /\ pc = "anat_to_gmwmi:123"
    /\ LET cmd_5ttgen == << PyStr(locals.fivettgen), PyStr(locals.fivett_algo),
                            PyStr(locals.anat), PyStr(locals.outpath_base \o "5tt.nii.gz"),
                            PyStr("-nocrop") >>
       IN Run(PyList(cmd_5ttgen), "cmd_5ttgen" :> cmd_5ttgen, "anat_to_gmwmi:128")

\* line 128
anat_to_gmwmi_128 ==
    /\ pc = "anat_to_gmwmi:128"
    /\ Find("fivett2gmwmi", "5tt2gmwmi", NoLocals, "anat_to_gmwmi:129")

\* lines 129-133
anat_to_gmwmi_129 ==
    /\ pc = "anat_to_gmwmi:129"
    /\ LET cmd_5tt2gmwmi == << PyStr(locals.fivett2gmwmi),
                               PyStr(locals.outpath_base \o "5tt.nii.gz"),
                               PyStr(locals.outpath_base \o "gmwmi.nii.gz") >>
       IN Run(PyList(cmd_5tt2gmwmi), "cmd_5tt2gmwmi" :> cmd_5tt2gmwmi, "done")

----------------------------------------------------------------------------
(* extract_tck_mrtrix *)

\* lines 164-174; search_dist goes into the list as the caller passed it
tck2connectome_cmd(tck2connectome, tck_file, rois_in, outpath_base, search_dist) ==
    << PyStr(tck2connectome), PyStr(tck_file), PyStr(rois_in),
       PyStr(outpath_base \o "connectome.txt"), PyStr("-assignment_forward_search"),
       search_dist, PyStr("-out_assignments"), PyStr(outpath_base \o "assignments.txt"),
       PyStr("-force") >>

\* lines 180-194 with the two node sets exchanged
connectome2tck_cmd_swapped(connectome2tck, tck_file, outpath_base, two_rois) ==
    LET nodes == IF two_rois THEN "0,1" ELSE "1,2"
    IN << PyStr(connectome2tck), PyStr(tck_file), PyStr(outpath_base \o "assignments.txt"),
          PyStr(outpath_base \o "extracted"), PyStr("-nodes"), PyStr(nodes),
          PyStr("-exclusive"), PyStr("-files"), PyStr("single") >>

\* lines 180-194
connectome2tck_cmd(connectome2tck, tck_file, outpath_base, two_rois) ==
    LET nodes == IF two_rois THEN "1,2" ELSE "0,1"
    IN << PyStr(connectome2tck), PyStr(tck_file), PyStr(outpath_base \o "assignments.txt"),
          PyStr(outpath_base \o "extracted"), PyStr("-nodes"), PyStr(nodes),
          PyStr("-exclusive"), PyStr("-files"), PyStr("single") >>

SearchDistInputs == {PyFloat("2.0"), PyStr("2.0")}

extract_tck_mrtrix_call ==
    \E tck_file \in {"T.tck"}, rois_in \in {"R.nii.gz"}, outpath_base \in {"out_"},
       search_dist \in SearchDistInputs, two_rois \in BOOLEAN :
        /\ Ready
        /\ Enter("extract_tck_mrtrix",
                 [tck_file |-> tck_file, rois_in |-> rois_in, outpath_base |-> outpath_base,
                  search_dist |-> search_dist, two_rois |-> two_rois],
                 "extract_tck_mrtrix:163")

\* line 163
extract_tck_mrtrix_163 ==
    /\ pc = "extract_tck_mrtrix:163"
    /\ Find("tck2connectome", "tck2connectome", NoLocals, "extract_tck_mrtrix:164")

\* lines 164-175
extract_tck_mrtrix_164 ==
    /\ pc = "extract_tck_mrtrix:164"
    /\ LET cmd == tck2connectome_cmd(locals.tck2connectome, locals.tck_file, locals.rois_in,
                                     locals.outpath_base, locals.search_dist)
       IN Run(PyList(cmd), "tck2connectome_cmd" :> cmd, "extract_tck_mrtrix:178")

\* line 178
extract_tck_mrtrix_178 ==
    /\ pc = "extract_tck_mrtrix:178"
    /\ Find("connectome2tck", "connectome2tck", NoLocals, "extract_tck_mrtrix:180")

\* lines 180-197
extract_tck_mrtrix_180 ==
    /\ pc = "extract_tck_mrtrix:180"
    /\ LET cmd == connectome2tck_cmd(locals.connectome2tck, locals.tck_file,
                                     locals.outpath_base, locals.two_rois)
       IN Run(PyList(cmd), "connectome2tck_cmd" :> cmd, "done")

----------------------------------------------------------------------------
(* dilate_roi *)

RoiInputs == {"/r/roi.nii.gz", "/r/lh.roi.label", "/r/roi.mgz"}

dilate_roi_call ==
    \E roi_in \in RoiInputs, fs_dir \in {"/fs/sub1"}, hemi \in {"lh", "rh"},
       outpath_base \in {"out_"} :
        /\ Ready
        /\ Enter("dilate_roi",
                 [roi_in |-> roi_in, fs_dir |-> fs_dir, hemi |-> hemi,
                  outpath_base |-> outpath_base],
                 "dilate_roi:206")

\* lines 206-214 and 218-219
dilate_roi_206 ==
    /\ pc = "dilate_roi:206"
    /\ LET subject == Last(split(locals.fs_dir, "/"))
           roi_file_extension == Last(split(locals.roi_in, "."))
           binds == ("subject" :> subject) @@ ("roi_file_extension" :> roi_file_extension)
       IN IF roi_file_extension # "label" /\ roi_file_extension # "mgz"
          THEN Find("mri_vol2surf", "mri_vol2surf",
                    ("roi_surf" :> replace(locals.roi_in, roi_file_extension, ".mgz")) @@ binds,
                    "dilate_roi:215")
          ELSE /\ locals' = ("roi_surf" :> locals.roi_in) @@ binds @@ locals
               /\ pc' = "dilate_roi:221"
               /\ UNCHANGED <<Env, call, log, tested, outcome, calls>>

\* lines 215-216
dilate_roi_215 ==
    /\ pc = "dilate_roi:215"
    /\ LET mri_vol2surf_cmd == << PyStr(locals.mri_vol2surf), PyStr("--src"),
                                  PyStr(locals.roi_in), PyStr("--projfrac-max"),
                                  PyStr("-.5 1 .1"), PyStr("--out"), PyStr(locals.roi_surf),
                                  PyStr("--regheader"), PyStr(locals.subject),
                                  PyStr("--hemi"), PyStr(locals.hemi) >>
       IN Run(PyList(mri_vol2surf_cmd), "mri_vol2surf_cmd" :> mri_vol2surf_cmd, "dilate_roi:221")

\* line 221
dilate_roi_221 ==
    /\ pc = "dilate_roi:221"
    /\ Find("mri_surf2vol", "mri_surf2vol", NoLocals, "dilate_roi:222")

\* lines 222-225: run_command is handed the name mri_surf2vol, which line 221
\* bound to the program, and not the list mri_surf2vol_cmd
dilate_roi_222 ==
    /\ pc = "dilate_roi:222"
    /\ LET mri_surf2vol_cmd == << PyStr(locals.mri_surf2vol), PyStr("--surfval"),
                                  PyStr(locals.roi_surf), PyStr("--o"), PyStr(locals.roi_in),
                                  PyStr("--subject"), PyStr(locals.subject),
                                  PyStr("--fill-projfrac"), PyStr("-2 0 0.05"),
                                  PyStr("--hemi"), PyStr(locals.hemi), PyStr("--template"),
                                  PyStr(join(join(locals.fs_dir, "mri"), "aseg.mgz")),
                                  PyStr("--identity"), PyStr(locals.subject) >>
       IN Run(PyStr(locals.mri_surf2vol), "mri_surf2vol_cmd" :> mri_surf2vol_cmd, "done")

----------------------------------------------------------------------------
(* intersect_gmwmi *)

intersect_gmwmi_call ==
    \E rois_in \in {"R.nii.gz", "out_atlas.nii.gz"}, gmwmi \in {"out_gmwmi.nii.gz"},
       outpath_base \in {"out_", "/o/"} :
        /\ Ready
        /\ Enter("intersect_gmwmi",
                 [rois_in |-> rois_in, gmwmi |-> gmwmi, outpath_base |-> outpath_base],
                 "intersect_gmwmi:229")

\* line 229
intersect_gmwmi_229 ==
    /\ pc = "intersect_gmwmi:229"
    /\ Find("mrcalc", "mrcalc", NoLocals, "intersect_gmwmi:230")

\* lines 230-231: mrcalc_path is read, the name bound at line 229 is mrcalc
intersect_gmwmi_230 ==
    /\ pc = "intersect_gmwmi:230"
    /\ IF Bound("mrcalc_path")
       THEN LET mrcalc_cmd == << PyStr(locals.mrcalc_path), PyStr(locals.rois_in),
                                 PyStr(locals.gmwmi), PyStr("-mult"),
                                 PyStr(locals.outpath_base \o "gmwmi_roi_intersect.nii.gz") >>
            IN Run(PyList(mrcalc_cmd), "mrcalc_cmd" :> mrcalc_cmd, "done")
       ELSE /\ Finish(NameError("mrcalc_path"))
            /\ UNCHANGED <<Env, call, locals, log, tested>>

----------------------------------------------------------------------------

Next ==
    \/ find_program_call
    \/ run_command_call
    \/ merge_rois_call \/ merge_rois_76 \/ merge_rois_80 \/ merge_rois_84
    \/ anat_to_gmwmi_call \/ anat_to_gmwmi_111 \/ anat_to_gmwmi_123
    \/ anat_to_gmwmi_128 \/ anat_to_gmwmi_129
    \/ extract_tck_mrtrix_call \/ extract_tck_mrtrix_163 \/ extract_tck_mrtrix_164
    \/ extract_tck_mrtrix_178 \/ extract_tck_mrtrix_180
    \/ dilate_roi_call \/ dilate_roi_206 \/ dilate_roi_215 \/ dilate_roi_221 \/ dilate_roi_222
    \/ intersect_gmwmi_call \/ intersect_gmwmi_229 \/ intersect_gmwmi_230
    \/ Reset

Spec == Init /\ [][Next]_vars

----------------------------------------------------------------------------
(* Vocabulary of the properties *)

Done == pc = "done"
Raised(exc) == outcome.k = "raise" /\ outcome.exc = exc
Failed == outcome.k = "raise"

\* the argument vectors of the processes spawned, in order
Invoked == [i \in 1..Len(log) |-> log[i].argv]

\* the locator resolves program in the present environment
Found(program) == find_program(program).res.k = "return"

\* no process failed to start and none exited nonzero
NoToolFailed == (\A i \in 1..Len(log) : log[i].rc = 0) /\ ~Raised("OSError")

Contains(s, sub) == \E i \in 1..(Len(s) - Len(sub) + 1) : SubSeq(s, i, i + Len(sub) - 1) = sub

\* argv carries option opt immediately followed by value val
HasOpt(argv, opt, val) == \E j \in 1..(Len(argv) - 1) : argv[j] = opt /\ argv[j + 1] = val
HasFlag(argv, flag) == \E j \in 1..Len(argv) : argv[j] = flag

\* the files the search path designates for program, directory by directory
Candidates(program) ==
    LET dirs == split(environ["PATH"], pathsep)
    IN [i \in 1..Len(dirs) |-> join(strip(dirs[i], "\""), program)]

Range(f) == {f[i] : i \in DOMAIN f}

----------------------------------------------------------------------------
(* C1: find_program returns the program whenever some directory of PATH,  *)
(* at any position, holds an executable of that name; otherwise it fails  *)
(* with an error naming the program, after testing every directory.       *)
C1_LocatorSearchesWholePath ==
    (Done /\ call.op = "find_program" /\ "PATH" \in DOMAIN environ) =>
        LET program == call.args.program
            cands == Candidates(program)
        IN IF \E i \in DOMAIN cands : cands[i] \in executables
           THEN outcome = Return(program)
           ELSE /\ Failed
                /\ Contains(outcome.msg, program)
                /\ Range(cands) \subseteq Range(tested)

(* C2: run_command returns normally when the process exits with code 0,   *)
(* and raises SystemExit with a message naming the first element of the   *)
(* command list when the process exits with any other code.               *)
C2_RunnerExitCodePolicy ==
    (Done /\ call.op = "run_command" /\ Len(log) = 1) =>
        IF log[1].rc = 0
        THEN outcome = Return(None)
        ELSE /\ Raised("SystemExit")
             /\ Contains(outcome.msg, call.args.cmd_list.v[1].v)

C2_Witness ==
    /\ Done /\ call.op = "run_command" /\ Len(log) = 1
    /\ log[1].rc # 0 /\ log[1].argv[1] = "mrcalc"
    /\ Raised("SystemExit")

(* C3: in merge_rois, anat_to_gmwmi, extract_tck_mrtrix and dilate_roi, a *)
(* tool that exits nonzero is the last process the component spawns, and  *)
(* the component has ended with an exception.                             *)
MultiTool == {"merge_rois", "anat_to_gmwmi", "extract_tck_mrtrix", "dilate_roi"}

C3_FailFast ==
    call.op \in MultiTool =>
        \A i \in 1..Len(log) :
            log[i].rc # 0 => (i = Len(log) /\ Done /\ Failed)

C3_Witness ==
    /\ call.op = "anat_to_gmwmi" /\ Len(log) = 2
    /\ log[1].rc = 0 /\ log[2].rc # 0
    /\ Done /\ Raised("SystemExit")

(* C4: extract_tck_mrtrix on T.tck, R.nii.gz, out_, 2.0, two_rois=False,  *)
(* with both tools found and no tool failing, spawns exactly tck2connectome*)
(* and then connectome2tck with the stated arguments and returns.         *)
C4_ExtractEndToEnd ==
    (/\ Done /\ call.op = "extract_tck_mrtrix"
     /\ call.args.tck_file = "T.tck" /\ call.args.rois_in = "R.nii.gz"
     /\ call.args.outpath_base = "out_" /\ call.args.search_dist.v = "2.0"
     /\ ~call.args.two_rois
     /\ Found("tck2connectome") /\ Found("connectome2tck") /\ NoToolFailed) =>
        /\ Invoked = << << "tck2connectome", "T.tck", "R.nii.gz", "out_connectome.txt",
                           "-assignment_forward_search", "2.0", "-out_assignments",
                           "out_assignments.txt", "-force" >>,
                        << "connectome2tck", "T.tck", "out_assignments.txt", "out_extracted",
                           "-nodes", "0,1", "-exclusive", "-files", "single" >> >>
        /\ outcome = Return(None)

(* C5: merge_rois on R1.nii.gz, R2.nii.gz, out_, with mrcalc found and    *)
(* exiting 0, spawns the multiplication and then the addition into an     *)
(* atlas path derived from the prefix, and returns.                       *)
C5_MergeEndToEnd ==
    (/\ Done /\ call.op = "merge_rois"
     /\ call.args.roi1 = "R1.nii.gz" /\ call.args.roi2 = "R2.nii.gz"
     /\ call.args.outpath_base = "out_"
     /\ Found("mrcalc") /\ NoToolFailed) =>
        /\ Len(log) = 2
        /\ log[1].argv = << "mrcalc", "R2.nii.gz", "2", "-mult", "R2_labelled.nii.gz" >>
        /\ Len(log[2].argv) = 5
        /\ SubSeq(log[2].argv, 1, 4) = << "mrcalc", "R1.nii.gz", "R2_labelled.nii.gz", "-add" >>
        /\ startswith(log[2].argv[5], "out_")
        /\ outcome = Return(None)

(* C6 as stated: every path ending in .nii, .nii.gz or .mif has 5ttgen    *)
(* run with fsl, every directory with a surf subdirectory has it run with *)
(* hsvs, and any other input is rejected with no tool located or spawned. *)
VolumeExtension(anat) ==
    endswith(anat, ".nii") \/ endswith(anat, ".nii.gz") \/ endswith(anat, ".mif")
HasSurf(anat) == join(anat, "surf") \in directories
Classified == call.op = "anat_to_gmwmi" /\ pc # "anat_to_gmwmi:111"
AlgorithmIs(algo) ==
    /\ ~Raised("Exception")
    /\ \A i \in 1..Len(log) : log[i].argv[1] = "5ttgen" => log[i].argv[2] = algo
Rejected == Done /\ Raised("Exception") /\ log = << >> /\ tested = << >>

C6_ClassificationAsStated ==
    Classified =>
        LET anat == call.args.anat
        IN /\ VolumeExtension(anat) => AlgorithmIs("fsl")
           /\ HasSurf(anat) => AlgorithmIs("hsvs")
           /\ (~VolumeExtension(anat) /\ ~HasSurf(anat)) => Rejected

(* C6 amended: a directory with a surf subdirectory has 5ttgen run with   *)
(* hsvs whatever its name; a path ending in .nii, .nii.gz or .mif that is *)
(* not such a directory has it run with fsl; any other input is rejected  *)
(* with no tool located or spawned.                                       *)
C6_Classification ==
    Classified =>
        LET anat == call.args.anat
        IN /\ (VolumeExtension(anat) /\ ~HasSurf(anat)) => AlgorithmIs("fsl")
           /\ HasSurf(anat) => AlgorithmIs("hsvs")
           /\ (~VolumeExtension(anat) /\ ~HasSurf(anat)) => Rejected

C6_Witness ==
    /\ call.op = "anat_to_gmwmi"
    /\ VolumeExtension(call.args.anat) /\ HasSurf(call.args.anat)
    /\ \E i \in 1..Len(log) : log[i].argv[1] = "5ttgen" /\ log[i].argv[2] = "hsvs"

(* C7: dilate_roi, with its tools found and exiting 0, spawns mri_vol2surf*)
(* and then mri_surf2vol for a volumetric ROI and mri_surf2vol alone for  *)
(* a label or mgz ROI; mri_surf2vol gets the surface file, the subject,   *)
(* the fill-projection window, the hemisphere and the aseg.mgz template,  *)
(* and writes to roi_in.                                                  *)
C7_DilateArguments ==
    (/\ Done /\ call.op = "dilate_roi"
     /\ Found("mri_vol2surf") /\ Found("mri_surf2vol") /\ NoToolFailed) =>
        LET a == call.args
            extension == Last(split(a.roi_in, "."))
            surface == extension \in {"label", "mgz"}
            s2v == log[Len(log)].argv
        IN /\ Len(log) = IF surface THEN 1 ELSE 2
           /\ ~surface => /\ log[1].argv[1] = "mri_vol2surf"
                          /\ HasOpt(log[1].argv, "--src", a.roi_in)
                          /\ \E j \in 1..(Len(log[1].argv) - 1) :
                                 /\ log[1].argv[j] = "--out"
                                 /\ HasOpt(s2v, "--surfval", log[1].argv[j + 1])
           /\ surface => HasOpt(s2v, "--surfval", a.roi_in)
           /\ s2v[1] = "mri_surf2vol"
           /\ HasOpt(s2v, "--subject", Last(split(a.fs_dir, "/")))
           /\ HasOpt(s2v, "--fill-projfrac", "-2 0 0.05")
           /\ HasOpt(s2v, "--hemi", a.hemi)
           /\ HasOpt(s2v, "--template", a.fs_dir \o "/mri/aseg.mgz")
           /\ HasOpt(s2v, "--o", a.roi_in)
           /\ outcome = Return(None)

(* C8: intersect_gmwmi, with mrcalc found and exiting 0, spawns exactly   *)
(* mrcalc rois_in gmwmi -mult P gmwmi_roi_intersect.nii.gz and returns.   *)
C8_IntersectEndToEnd ==
    (/\ Done /\ call.op = "intersect_gmwmi"
     /\ Found("mrcalc") /\ NoToolFailed) =>
        /\ Invoked = << << "mrcalc", call.args.rois_in, call.args.gmwmi, "-mult",
                           call.args.outpath_base \o "gmwmi_roi_intersect.nii.gz" >> >>
        /\ outcome = Return(None)

(* C9: every connectome2tck process of extract_tck_mrtrix gets -nodes 1,2 *)
(* when two_rois is True and -nodes 0,1 when it is False, no other -nodes *)
(* value, and the -exclusive and -files single flags.                     *)
C9_NodeSet ==
    call.op = "extract_tck_mrtrix" =>
        \A i \in 1..Len(log) :
            log[i].argv[1] = "connectome2tck" =>
                LET argv == log[i].argv
                    nodes == IF call.args.two_rois THEN "1,2" ELSE "0,1"
                IN /\ HasOpt(argv, "-nodes", nodes)
                   /\ \A j \in 1..(Len(argv) - 1) : argv[j] = "-nodes" => argv[j + 1] = nodes
                   /\ HasFlag(argv, "-exclusive")
                   /\ HasOpt(argv, "-files", "single")

C9_Witness ==
    /\ Done /\ call.op = "extract_tck_mrtrix" /\ call.args.two_rois
    /\ Len(log) = 2 /\ log[2].argv[1] = "connectome2tck"
    /\ outcome = Return(None)

(* C10: with PATH unset or empty, find_program fails with the SystemExit  *)
(* reporting an empty search path, and tests no candidate file.           *)
C10_EmptyPathFailsFast ==
    (/\ Done /\ call.op = "find_program"
     /\ ("PATH" \notin DOMAIN environ \/ environ["PATH"] = "")) =>
        /\ outcome = Raise("SystemExit", "PATH environment variable is empty.")
        /\ tested = << >>

====
